---- MODULE Spec2Model ----
(***************************************************************************)
(* A model of the to-do list's task service (TaskService.ts), its task     *)
(* store (TaskSubject), the task factory, the state handlers and the       *)
(* storage port.                                                           *)
(*                                                                         *)
(* Task objects live in a heap and are named by references, because the    *)
(* code shares them: createTask returns the very object it stores,         *)
(* collections are shallow copies, and handleState writes into the object  *)
(* it is given.  Every service call is one action: the code is             *)
(* synchronous, so a call runs to its end (or to the exception of a        *)
(* listener) before anything else happens.                                 *)
(***************************************************************************)
EXTENDS Integers, Sequences, FiniteSets, TLC

VARIABLES
  now,        \* the clock read by new Date(), in ticks
  nextId,     \* the next identifier uuidv4() hands out
  heap,       \* the task objects of this process: reference -> record
  tasks,      \* TaskSubject.tasks: the array of references held by the store
  observers,  \* TaskSubject.observers: the registrations, in order
  storage,    \* localStorage: key -> None or Some(text)
  passedStore,\* the store behind an adapter a caller passes to getInstance
  instance,   \* TaskService.instance is set
  adapter,    \* this.storageAdapter of the instance
  port,       \* the calls made on the storage adapter during the latest call
  received,   \* per listener: the collection of its latest update call
  calls,      \* per listener: update calls during the latest service call
  log,        \* the listeners called during the latest service call, in order
  seen,       \* per listener: what getTasks() gave it inside its latest update
  seenBlob,   \* per listener: what the storage held under the key at that moment
  last,       \* the latest service call: its name, inputs and outcome
  pre,        \* what the latest service call found: heap, tasks, observers, storage
  opCount,    \* mutating calls made on this service instance
  setCount,   \* setItem calls made by this service instance
  raised,     \* mutating calls on this service instance that raised
  steps,      \* mutating calls made since the storage was empty
  detached,   \* per listener: None, or Some(k) when the latest call that
              \* changed its registrations was a detach that found k of them
  editTask,   \* TaskList's editTask: None, or Some(the task in the dialog)
  editDialogOpen, \* TaskList's editDialogOpen
  written     \* per key: what the callers of a LocalStorageAdapter set last and
              \* did not remove since

vars == <<now, nextId, heap, tasks, observers, storage, passedStore, instance,
          adapter, port, received, calls, log, seen,
          seenBlob, last,
          pre, opCount, setCount, raised, steps, detached,
          editTask, editDialogOpen, written>>

----------------------------------------------------------------------------
(* Bounds of the model *)

MaxTime == 2

MaxIds == 2

MaxOps == 3

MaxObservers == 2

MaxListeners == 3

MaxCalls == 2

MaxMoves == 6
MaxWalk == 4

----------------------------------------------------------------------------
(* Values *)

\* null, where a state or a handler is expected.
Null == "null"

\* A value that may be absent (getItem's string | null): <<>> or <<value>>.
None == <<>>

Some(v) == <<v>>

\* The time value of an invalid date.
NaN == -1

STORAGE_KEY == "tasks"

\* The keys of a store: the service's key and one of somebody else.
Keys == {STORAGE_KEY, "theme"}

\* The adapters: the default one over localStorage, and one a caller passes.
LocalStorageAdapter == "LocalStorageAdapter"

PassedAdapter == "PassedAdapter"

\* A stored text that is not the JSON text of an array of tasks.
Text(s) == <<[text |-> s]>>

EmptyText == Text("")

Malformed == Text("{")

TaskState_NEW == "NEW"

TaskState_IN_PROGRESS == "IN_PROGRESS"

TaskState_COMPLETED == "COMPLETED"

TaskState_POSTPONED == "POSTPONED"

TaskState == {TaskState_NEW, TaskState_IN_PROGRESS, TaskState_COMPLETED, TaskState_POSTPONED}

TaskPriority_HIGH == "HIGH"

TaskPriority_MEDIUM == "MEDIUM"

TaskPriority_LOW == "LOW"

TaskPriority == {TaskPriority_HIGH, TaskPriority_MEDIUM, TaskPriority_LOW}

Time == 0..MaxTime

\* The inputs the callers are given to choose from.
Titles == {"a", "b"}

Descriptions == {"", "d"}

\* createTask's arguments: title, description, priority.
NewTaskInputs ==
  {<<"a", "", TaskPriority_HIGH>>, <<"b", "d", TaskPriority_LOW>>,
   <<"a", "d", TaskPriority_MEDIUM>>}

UnknownState == "ARCHIVED"

\* What a user types into a title field.
TypedTitles == {"", " ", "a", " a "}

WhiteSpace == {" ", "\t", "\n"}

\* String.prototype.trim: s without its leading and trailing white space.
RECURSIVE trimStart(_)
trimStart(s) ==
  IF Len(s) > 0 /\ SubSeq(s, 1, 1) \in WhiteSpace
  THEN trimStart(SubSeq(s, 2, Len(s)))
  ELSE s

RECURSIVE trimEnd(_)
trimEnd(s) ==
  IF Len(s) > 0 /\ SubSeq(s, Len(s), Len(s)) \in WhiteSpace
  THEN trimEnd(SubSeq(s, 1, Len(s) - 1))
  ELSE s

trim(s) == trimEnd(trimStart(s))

\* The listener TaskList registers: it keeps the collection it is given.
TaskListObserver == "o1"

\* The listeners: o1 and o2 record what they are given, bad raises; once
\* and ender record what they are given and then detach, once itself and
\* ender o1; cap and starter record what they are given and then call the
\* service: cap deletes the first task when it is given more than one,
\* starter moves the first NEW task it is given to IN_PROGRESS.
PlainObservers == {"o1", "o2", "bad"}

DetachingObservers == {"once", "ender"}

ReentrantObservers == {"cap", "starter"}

Observers == PlainObservers \cup DetachingObservers \cup ReentrantObservers

ObserverThrows(l) == l = "bad"

\* The listener that l detaches from inside its update, if any.
ObserverDetaches(l) ==
  CASE l = "once" -> <<"once">>
    [] l = "ender" -> <<"o1">>
    [] OTHER -> <<>>

Range(s) == {s[i] : i \in DOMAIN s}

\* The records behind an array of references.
Deref(h, refs) == [i \in DOMAIN refs |-> h[refs[i]]]

Count(s, x) == Cardinality({i \in DOMAIN s : s[i] = x})

----------------------------------------------------------------------------
(* Dates and JSON *)

Pad3(n) ==
  IF n < 10 THEN "00" \o ToString(n)
  ELSE IF n < 100 THEN "0" \o ToString(n) ELSE ToString(n)

\* Date.prototype.toJSON of a valid date: the ISO-8601 text of the instant.
toISOString(t) == "1970-01-01T00:00:00." \o Pad3(t) \o "Z"

\* new Date(text): the instant the text denotes, or an invalid date.
parseDate(s) ==
  IF \E t \in Time : toISOString(t) = s
  THEN CHOOSE t \in Time : toISOString(t) = s
  ELSE NaN

\* JSON.stringify of one task: the strings stay, the dates become text.
stringifyTask(t) ==
  [id |-> t.id, title |-> t.title, description |-> t.description,
   state |-> t.state, priority |-> t.priority,
   createdAt |-> toISOString(t.createdAt),
   updatedAt |-> toISOString(t.updatedAt)]

\* JSON.stringify(Task[]): the blob, as the array of the serialized records.
stringify(h, refs) == [i \in DOMAIN refs |-> stringifyTask(h[refs[i]])]

\* A rehydration that mixes up the two dates.
rehydrate_swapsDates(j) ==
  [id |-> j.id, title |-> j.title, description |-> j.description,
   state |-> j.state, priority |-> j.priority,
   createdAt |-> parseDate(j.updatedAt),
   updatedAt |-> parseDate(j.createdAt)]

\* loadTasks' map callback: the parsed record with both dates rehydrated.
rehydrate(j) ==
  [id |-> j.id, title |-> j.title, description |-> j.description,
   state |-> j.state, priority |-> j.priority,
   createdAt |-> parseDate(j.createdAt),
   updatedAt |-> parseDate(j.updatedAt)]

----------------------------------------------------------------------------
(* The storage port *)

\* A call on the adapter of the service is logged with its key.
portCall(w, method, key) == [w EXCEPT !.port = Append(@, <<method, key>>)]

\* getItem returns the world as it leaves it and the value returned.
\* A getItem that gives null for the empty string, as value || null does.
getItem_emptyIsNull(w, key) ==
  LET held == IF w.adapter = LocalStorageAdapter THEN w.storage[key]
              ELSE w.passedStore[key]
  IN [w |-> portCall(w, "getItem", key),
      ret |-> IF held = Some(EmptyText) THEN None ELSE held]

getItem(w, key) ==
  [w |-> portCall(w, "getItem", key),
   ret |-> IF w.adapter = LocalStorageAdapter THEN w.storage[key]
           ELSE w.passedStore[key]]

setItem(w, key, value) ==
  LET c == [portCall(w, "setItem", key) EXCEPT !.setCount = @ + 1]
  IN IF w.adapter = LocalStorageAdapter
     THEN [c EXCEPT !.storage[key] = Some(value)]
     ELSE [c EXCEPT !.passedStore[key] = Some(value)]

removeItem(w, key) ==
  LET c == portCall(w, "removeItem", key)
  IN IF w.adapter = LocalStorageAdapter THEN [c EXCEPT !.storage[key] = None]
     ELSE [c EXCEPT !.passedStore[key] = None]

----------------------------------------------------------------------------
(* TaskSubject *)

\* An attach that registers a listener once only.
attach_dedupes(w, l) ==
  IF l \in Range(w.observers) THEN w ELSE [w EXCEPT !.observers = Append(@, l)]

attach(w, l) == [w EXCEPT !.observers = Append(@, l)]

indexOf(s, x) ==
  IF \E i \in DOMAIN s : s[i] = x
  THEN CHOOSE i \in DOMAIN s : s[i] = x /\ \A j \in 1..(i - 1) : s[j] # x
  ELSE 0

splice1(s, i) == SubSeq(s, 1, i - 1) \o SubSeq(s, i + 1, Len(s))

\* A detach without the check of the index: splice(-1, 1) takes out the
\* last registration when the listener is not registered.
detach_unguarded(w, l) ==
  LET index == indexOf(w.observers, l)
  IN IF index # 0 THEN [w EXCEPT !.observers = splice1(@, index)]
     ELSE [w EXCEPT !.observers = SubSeq(@, 1, Len(@) - 1)]

\* A detach that takes out the latest registration of the listener.
detach_removesLatest(w, l) ==
  LET places == {i \in DOMAIN w.observers : w.observers[i] = l}
  IN IF places # {}
     THEN [w EXCEPT !.observers =
             splice1(@, CHOOSE i \in places : \A j \in places : j <= i)]
     ELSE w

detach(w, l) ==
  LET index == indexOf(w.observers, l)
  IN IF index # 0 THEN [w EXCEPT !.observers = splice1(@, index)] ELSE w

getTasks(w) == w.tasks

\* A call of update in a try/catch: what the listener raises is swallowed.
update_swallows(w, l) ==
  LET called == [w EXCEPT !.calls[l] = @ + 1, !.log = Append(@, l)]
  IN IF ObserverThrows(l) THEN called
     ELSE [called EXCEPT !.received[l] = Some(w.tasks),
                         !.seen[l] = Some(w.tasks),
                         !.seenBlob[l] = Some(w.storage[STORAGE_KEY])]

\* observer.update(this.tasks) of one listener: it keeps what it is given,
\* what getTasks() returns and what the storage holds at that moment.
\* The service methods a listener may call from inside its update.
RECURSIVE deleteTask(_, _)
RECURSIVE changeTaskState(_, _, _)

\* The first place of a task in state NEW in the collection, or 0.
firstNew(h, ts) ==
  IF \E i \in DOMAIN ts : h[ts[i]].state = TaskState_NEW
  THEN CHOOSE i \in DOMAIN ts :
         /\ h[ts[i]].state = TaskState_NEW
         /\ \A j \in 1..(i - 1) : h[ts[j]].state # TaskState_NEW
  ELSE 0

update(w, l) ==
  LET called == [w EXCEPT !.calls[l] = @ + 1, !.log = Append(@, l)]
      kept == [called EXCEPT !.received[l] = Some(w.tasks),
                             !.seen[l] = Some(getTasks(w)),
                             !.seenBlob[l] = Some(w.storage[STORAGE_KEY])]
  IN IF ObserverThrows(l) THEN [called EXCEPT !.threw = TRUE]
     ELSE IF ObserverDetaches(l) # <<>> THEN detach(kept, ObserverDetaches(l)[1])
     ELSE IF l = "cap" /\ Len(w.tasks) > 1
          THEN deleteTask(kept, w.heap[w.tasks[1]].id)
     ELSE IF l = "starter" /\ firstNew(w.heap, w.tasks) # 0
          THEN changeTaskState(kept, w.tasks[firstNew(w.heap, w.tasks)],
                               TaskState_IN_PROGRESS)
     ELSE kept

RECURSIVE notifyFrom(_, _)
notifyFrom(w, i) ==
  IF w.threw \/ i > Len(w.observers) THEN w
  ELSE notifyFrom(update(w, w.observers[i]), i + 1)

\* A notification that leaves out the first registration.
notify_skipsFirst(w) == notifyFrom(w, 2)

notify(w) == notifyFrom(w, 1)

\* A setTasks that notifies before it replaces the collection.
setTasks_notifiesFirst(w, ts) == [notify(w) EXCEPT !.tasks = ts]

\* A setTasks that assigns the collection again after the notification.
setTasks_assignsAgain(w, ts) == [notify([w EXCEPT !.tasks = ts]) EXCEPT !.tasks = ts]

setTasks(w, ts) == notify([w EXCEPT !.tasks = ts])

----------------------------------------------------------------------------
(* ConcreteTaskFactory and the state handlers *)

\* A factory whose identifiers repeat.
factoryCreateTask_sameId(title, description, priority) ==
  [id |-> 1, title |-> title, description |-> description,
   state |-> TaskState_NEW, priority |-> priority,
   createdAt |-> now, updatedAt |-> now]

\* A factory that mixes up title and description.
factoryCreateTask_swapsText(title, description, priority) ==
  [id |-> nextId, title |-> description, description |-> title,
   state |-> TaskState_NEW, priority |-> priority,
   createdAt |-> now, updatedAt |-> now]

factoryCreateTask(title, description, priority) ==
  [id |-> nextId, title |-> title, description |-> description,
   state |-> TaskState_NEW, priority |-> priority,
   createdAt |-> now, updatedAt |-> now]

\* A lookup that falls back to the handler of NEW.
getHandlerForState_defaultsNew(state) ==
  IF state \in TaskState THEN state ELSE TaskState_NEW

\* A handler is named by the state it stands for; Null is "no handler".
getHandlerForState(state) == IF state \in TaskState THEN state ELSE Null

\* A handler that sets the state and leaves updatedAt.
handleState_keepsStamp(w, handler, task) ==
  [w EXCEPT !.heap[task].state = handler]

handleState(w, handler, task) ==
  [w EXCEPT !.heap[task].state = handler, !.heap[task].updatedAt = now]

\* A table in which IN_PROGRESS is followed by POSTPONED.
getNextState_viaPostponed(handler) ==
  CASE handler = TaskState_NEW -> TaskState_IN_PROGRESS
    [] handler = TaskState_IN_PROGRESS -> TaskState_POSTPONED
    [] handler = TaskState_COMPLETED -> Null
    [] handler = TaskState_POSTPONED -> TaskState_IN_PROGRESS

getNextState(handler) ==
  CASE handler = TaskState_NEW -> TaskState_IN_PROGRESS
    [] handler = TaskState_IN_PROGRESS -> TaskState_COMPLETED
    [] handler = TaskState_COMPLETED -> Null
    [] handler = TaskState_POSTPONED -> TaskState_IN_PROGRESS

\* A table that gives IN_PROGRESS as the state before POSTPONED.
getPreviousState_ofPostponed(handler) ==
  CASE handler = TaskState_NEW -> Null
    [] handler = TaskState_IN_PROGRESS -> TaskState_NEW
    [] handler = TaskState_COMPLETED -> TaskState_IN_PROGRESS
    [] handler = TaskState_POSTPONED -> TaskState_IN_PROGRESS

\* A table that gives POSTPONED as the state before IN_PROGRESS.
getPreviousState_throughPostponed(handler) ==
  CASE handler = TaskState_NEW -> Null
    [] handler = TaskState_IN_PROGRESS -> TaskState_POSTPONED
    [] handler = TaskState_COMPLETED -> TaskState_IN_PROGRESS
    [] handler = TaskState_POSTPONED -> TaskState_NEW

getPreviousState(handler) ==
  CASE handler = TaskState_NEW -> Null
    [] handler = TaskState_IN_PROGRESS -> TaskState_NEW
    [] handler = TaskState_COMPLETED -> TaskState_IN_PROGRESS
    [] handler = TaskState_POSTPONED -> TaskState_NEW

----------------------------------------------------------------------------
(* TaskService *)

\* A saveTasks that removes the key when there is no task left.
saveTasks_removesEmpty(w) ==
  IF w.threw THEN w
  ELSE IF getTasks(w) = <<>> THEN removeItem(w, STORAGE_KEY)
  ELSE setItem(w, STORAGE_KEY, stringify(w.heap, getTasks(w)))

\* A statement after a call that raised is not executed.
saveTasks(w) ==
  IF w.threw THEN w
  ELSE setItem(w, STORAGE_KEY, stringify(w.heap, getTasks(w)))

\* A loadTasks that writes back what it loaded.
loadTasks_writesBack(w) ==
  LET got == getItem(w, STORAGE_KEY)
      storedTasks == got.ret
  IN IF storedTasks # None /\ storedTasks # Some(EmptyText)
     THEN IF storedTasks = Some(Malformed)
          THEN [got.w EXCEPT !.threw = TRUE]
          ELSE LET parsed == storedTasks[1]
                   loaded == [i \in DOMAIN parsed |-> rehydrate(parsed[i])]
                   base == Len(got.w.heap)
               IN saveTasks(setTasks([got.w EXCEPT !.heap = @ \o loaded],
                                     [i \in DOMAIN loaded |-> base + i]))
     ELSE got.w

\* if (storedTasks): null and the empty string are skipped.  JSON.parse
\* raises on a text that is not JSON.
loadTasks(w) ==
  LET got == getItem(w, STORAGE_KEY)
      storedTasks == got.ret
  IN IF storedTasks # None /\ storedTasks # Some(EmptyText)
     THEN IF storedTasks = Some(Malformed)
          THEN [got.w EXCEPT !.threw = TRUE]
          ELSE LET parsed == storedTasks[1]
                   loaded == [i \in DOMAIN parsed |-> rehydrate(parsed[i])]
                   base == Len(got.w.heap)
               IN setTasks([got.w EXCEPT !.heap = @ \o loaded],
                           [i \in DOMAIN loaded |-> base + i])
     ELSE got.w

\* A createTask that persists before it notifies.
createTask_persistsFirst(w, title, description, priority) ==
  LET task == Len(w.heap) + 1
      w1 == [w EXCEPT !.heap = Append(@, factoryCreateTask(title, description, priority))]
      w2 == notify(saveTasks([w1 EXCEPT !.tasks = Append(getTasks(w1), task)]))
  IN [w |-> w2, ret |-> IF w2.threw THEN None ELSE Some(task)]

\* A createTask that puts the new task first.
createTask_prepends(w, title, description, priority) ==
  LET task == Len(w.heap) + 1
      w1 == [w EXCEPT !.heap = Append(@, factoryCreateTask(title, description, priority))]
      w2 == saveTasks(setTasks(w1, <<task>> \o getTasks(w1)))
  IN [w |-> w2, ret |-> IF w2.threw THEN None ELSE Some(task)]

\* The returned record carries the world after the call and the value
\* returned: Some(task), or None when the call raised.
createTask(w, title, description, priority) ==
  LET task == Len(w.heap) + 1
      w1 == [w EXCEPT !.heap = Append(@, factoryCreateTask(title, description, priority))]
      w2 == saveTasks(setTasks(w1, Append(getTasks(w1), task)))
  IN [w |-> w2, ret |-> IF w2.threw THEN None ELSE Some(task)]

\* An updateTask that keeps the updatedAt it is given.
updateTask_unstamped(w, task) ==
  LET old == getTasks(w)
      hit == {i \in DOMAIN old : w.heap[old[i]].id = w.heap[task].id}
      base == Len(w.heap)
      nth(i) == Cardinality({j \in hit : j <= i})
      ts == [i \in DOMAIN old |-> IF i \in hit THEN base + nth(i) ELSE old[i]]
      w1 == [w EXCEPT !.heap = @ \o [k \in 1..Cardinality(hit) |-> w.heap[task]]]
  IN saveTasks(setTasks(w1, ts))

\* An updateTask that adds the task when no stored task has the id.
updateTask_upserts(w, task) ==
  LET old == getTasks(w)
      hit == {i \in DOMAIN old : w.heap[old[i]].id = w.heap[task].id}
      copy == [w.heap[task] EXCEPT !.updatedAt = now]
      base == Len(w.heap)
      nth(i) == Cardinality({j \in hit : j <= i})
      ts == [i \in DOMAIN old |-> IF i \in hit THEN base + nth(i) ELSE old[i]]
      w1 == [w EXCEPT !.heap = @ \o [k \in 1..Cardinality(hit) |-> copy]]
  IN IF hit = {}
     THEN saveTasks(setTasks([w EXCEPT !.heap = Append(@, copy)], Append(old, base + 1)))
     ELSE saveTasks(setTasks(w1, ts))

\* An updateTask that returns at once when no stored task has the id.
updateTask_skipsUnknown(w, task) ==
  LET old == getTasks(w)
      hit == {i \in DOMAIN old : w.heap[old[i]].id = w.heap[task].id}
      copy == [w.heap[task] EXCEPT !.updatedAt = now]
      base == Len(w.heap)
      nth(i) == Cardinality({j \in hit : j <= i})
      ts == [i \in DOMAIN old |-> IF i \in hit THEN base + nth(i) ELSE old[i]]
      w1 == [w EXCEPT !.heap = @ \o [k \in 1..Cardinality(hit) |-> copy]]
  IN IF hit = {} THEN w ELSE saveTasks(setTasks(w1, ts))

\* An updateTask that moves the updated task to the end of the collection.
updateTask_movesLast(w, task) ==
  LET old == getTasks(w)
      hit == {i \in DOMAIN old : w.heap[old[i]].id = w.heap[task].id}
      copy == [w.heap[task] EXCEPT !.updatedAt = now]
      rest == SelectSeq(old, LAMBDA r : w.heap[r].id # w.heap[task].id)
      w1 == [w EXCEPT !.heap = Append(@, copy)]
  IN IF hit = {} THEN saveTasks(setTasks(w, old))
     ELSE saveTasks(setTasks(w1, Append(rest, Len(w.heap) + 1)))

updateTask(w, task) ==
  LET old == getTasks(w)
      hit == {i \in DOMAIN old : w.heap[old[i]].id = w.heap[task].id}
      copy == [w.heap[task] EXCEPT !.updatedAt = now]
      base == Len(w.heap)
      nth(i) == Cardinality({j \in hit : j <= i})
      ts == [i \in DOMAIN old |-> IF i \in hit THEN base + nth(i) ELSE old[i]]
      w1 == [w EXCEPT !.heap = @ \o [k \in 1..Cardinality(hit) |-> copy]]
  IN saveTasks(setTasks(w1, ts))

\* A deleteTask that takes out the first task, whatever its id.
deleteTask_dropsHead(w, taskId) ==
  LET old == getTasks(w)
  IN saveTasks(setTasks(w, SubSeq(old, 2, Len(old))))

\* A deleteTask that returns at once when no stored task has the id.
deleteTask_skipsUnknown(w, taskId) ==
  LET keep(t) == w.heap[t].id # taskId
      old == getTasks(w)
  IN IF SelectSeq(old, keep) = old THEN w
     ELSE saveTasks(setTasks(w, SelectSeq(old, keep)))

\* A deleteTask that forgets to persist.
deleteTask_unsaved(w, taskId) ==
  LET keep(t) == w.heap[t].id # taskId
  IN setTasks(w, SelectSeq(getTasks(w), keep))

deleteTask(w, taskId) ==
  LET keep(t) == w.heap[t].id # taskId
  IN saveTasks(setTasks(w, SelectSeq(getTasks(w), keep)))

\* A changeTaskState that follows the table: it changes the state only to the
\* next or the previous state of the current one.
changeTaskState_onlyAdvertised(w, task, newState) ==
  LET handler == getHandlerForState(newState)
      current == w.heap[task].state
  IN IF handler # Null /\ newState \in {getNextState(current), getPreviousState(current)}
     THEN updateTask(handleState(w, handler, task), task)
     ELSE w

changeTaskState(w, task, newState) ==
  LET handler == getHandlerForState(newState)
  IN IF handler # Null
     THEN updateTask(handleState(w, handler, task), task)
     ELSE w

\* A query that moves the task on to the state it reports.
getPossibleNextState_advances(w, task) ==
  LET handler == getHandlerForState(w.heap[task].state)
      next == IF handler # Null THEN getNextState(handler) ELSE Null
  IN [w |-> IF next # Null THEN handleState(w, next, task) ELSE w, ret |-> next]

\* The queries return the world as they leave it and the value returned.
getPossibleNextState(w, task) ==
  LET handler == getHandlerForState(w.heap[task].state)
  IN [w |-> w, ret |-> IF handler # Null THEN getNextState(handler) ELSE Null]

getPossiblePreviousState(w, task) ==
  LET handler == getHandlerForState(w.heap[task].state)
  IN [w |-> w, ret |-> IF handler # Null THEN getPreviousState(handler) ELSE Null]

\* The constructor: a new factory and a new, empty task store, the adapter
\* passed or else the default one, then loadTasks.
construct(w, storageAdapter) ==
  loadTasks([w EXCEPT !.tasks = <<>>, !.observers = <<>>,
                      !.adapter = IF storageAdapter # None THEN storageAdapter[1]
                                  ELSE LocalStorageAdapter])

\* A getInstance that constructs a service on every call.
getInstance_constructsAgain(w, storageAdapter) ==
  LET made == construct(w, storageAdapter)
  IN IF made.threw THEN [w EXCEPT !.port = made.port, !.threw = TRUE]
     ELSE [made EXCEPT !.instance = TRUE]

\* A getInstance that records the instance before it is loaded.
getInstance_recordsFirst(w, storageAdapter) ==
  IF ~w.instance
  THEN LET made == construct(w, storageAdapter)
       IN IF made.threw
          THEN [w EXCEPT !.port = made.port, !.threw = TRUE, !.instance = TRUE]
          ELSE [made EXCEPT !.instance = TRUE]
  ELSE w

\* The static getInstance: the instance is assigned when the constructor
\* returned; an object whose constructor raised is dropped.
getInstance(w, storageAdapter) ==
  IF ~w.instance
  THEN LET made == construct(w, storageAdapter)
       IN IF made.threw THEN [w EXCEPT !.port = made.port, !.threw = TRUE]
          ELSE [made EXCEPT !.instance = TRUE]
  ELSE w

----------------------------------------------------------------------------
(* The callers *)

\* The service and its collaborators as one record, as a call finds them.
World ==
  [heap |-> heap, tasks |-> tasks, observers |-> observers,
   storage |-> storage, passedStore |-> passedStore, instance |-> instance,
   adapter |-> adapter, port |-> <<>>, received |-> received,
   calls |-> [l \in Observers |-> 0], log |-> <<>>, seen |-> seen,
   seenBlob |-> seenBlob,
   setCount |-> setCount, threw |-> FALSE]

\* What a call finds, kept to compare the outcome with.
Snapshot ==
  [heap |-> heap, tasks |-> tasks, observers |-> observers,
   storage |-> storage, passedStore |-> passedStore, instance |-> instance,
   adapter |-> adapter, received |-> received, raised |-> raised,
   detached |-> detached]

\* The world a call leaves.
Put(w) ==
  /\ heap' = w.heap
  /\ tasks' = w.tasks
  /\ observers' = w.observers
  /\ storage' = w.storage
  /\ passedStore' = w.passedStore
  /\ instance' = w.instance
  /\ adapter' = w.adapter
  /\ port' = w.port
  /\ received' = w.received
  /\ calls' = w.calls
  /\ log' = w.log
  /\ seen' = w.seen
  /\ seenBlob' = w.seenBlob
  /\ setCount' = w.setCount
  /\ pre' = Snapshot

\* A call on the service instance, which there must be.
Install(w) ==
  /\ instance
  /\ Put(w)
  /\ raised' = raised + (IF w.threw THEN 1 ELSE 0)

\* A call: its name, the clock and the arguments it was made with; then its
\* outcome: whether it raised, what it returned, how often it called setItem.
NoCall ==
  [op |-> "none", at |-> 0, task |-> None, taskId |-> None, listener |-> Null,
   adapter |-> None, key |-> Null, value |-> None,
   newState |-> Null, title |-> "", description |-> "", priority |-> Null,
   threw |-> FALSE, ret |-> None, sets |-> 0]

Call(op) == [NoCall EXCEPT !.op = op, !.at = now]

Outcome(call, w) ==
  [call EXCEPT !.threw = w.threw, !.sets = w.setCount - setCount]

IssuedIds == 1..(nextId - 1)

\* A task record written out by a caller, as the tests do; uuidv4 never
\* hands out its id.
Literal ==
  [id |-> 0, title |-> "a", description |-> "",
   state |-> TaskState_NEW, priority |-> TaskPriority_MEDIUM,
   createdAt |-> 0, updatedAt |-> 0]

UnknownId == Literal.id

\* { ...task, field: value }: the copies of t that differ from it in one field.
Copies(t) ==
  ( {[t EXCEPT !.id = x] : x \in IssuedIds \cup {UnknownId}}
    \cup {[t EXCEPT !.title = x] : x \in Titles}
    \cup {[t EXCEPT !.description = x] : x \in Descriptions}
    \cup {[t EXCEPT !.state = x] : x \in TaskState}
    \cup {[t EXCEPT !.priority = x] : x \in TaskPriority}
    \cup {[t EXCEPT !.createdAt = x] : x \in Time}
    \cup {[t EXCEPT !.updatedAt = x] : x \in Time} ) \ {t}

\* A task as a caller passes it: an object it holds (ref), or a new object.
Held(refs) == {[ref |-> Some(r), obj |-> heap[r]] : r \in refs}

Fresh(objs) == {[ref |-> None, obj |-> c] : c \in objs}

\* Any object of the process, a changed copy of a stored one, or a literal.
AnyTask ==
  Held(DOMAIN heap)
  \cup Fresh(UNION {Copies(heap[r]) : r \in Range(tasks)})
  \cup Fresh({Literal})

\* Any object of the process, stored or no longer stored, or a literal.
HeldTask == Held(DOMAIN heap) \cup Fresh({Literal})

\* A stored object or a literal with an id nobody has.
PlainTask == Held(Range(tasks)) \cup Fresh({Literal})

\* A stored object.
StoredTask == Held(Range(tasks))

\* The world with the passed object in the heap, and the reference to it.
Passed(w, p) ==
  IF p.ref # None THEN [w |-> w, task |-> p.ref[1]]
  ELSE [w |-> [w EXCEPT !.heap = Append(@, p.obj)], task |-> Len(w.heap) + 1]

Init ==
  /\ now = 0
  /\ nextId = 1
  /\ heap = <<>>
  /\ tasks = <<>>
  /\ observers = <<>>
  /\ storage = [k \in Keys |-> None]
  /\ passedStore = [k \in Keys |-> None]
  /\ instance = TRUE
  /\ adapter = LocalStorageAdapter
  /\ port = <<>>
  /\ received = [l \in Observers |-> None]
  /\ calls = [l \in Observers |-> 0]
  /\ log = <<>>
  /\ seen = [l \in Observers |-> None]
  /\ seenBlob = [l \in Observers |-> None]
  /\ last = NoCall
  /\ pre = [heap |-> <<>>, tasks |-> <<>>, observers |-> <<>>,
            storage |-> [k \in Keys |-> None],
            passedStore |-> [k \in Keys |-> None],
            instance |-> FALSE, adapter |-> LocalStorageAdapter,
            received |-> [l \in Observers |-> None], raised |-> 0,
            detached |-> [l \in Observers |-> None]]
  /\ opCount = 0
  /\ setCount = 0
  /\ raised = 0
  /\ steps = 0
  /\ detached = [l \in Observers |-> None]
  /\ editTask = None
  /\ editDialogOpen = FALSE
  /\ written = [k \in Keys |-> None]

Tick ==
  /\ now < MaxTime
  /\ now' = now + 1
  /\ UNCHANGED <<nextId, heap, tasks, observers, storage, passedStore, instance,
                 adapter, port, received, calls, log, seen, seenBlob,
                 last, pre, opCount, setCount, raised, steps, detached,
                 editTask, editDialogOpen, written>>

AttachObserver ==
  \E l \in PlainObservers :
    /\ Len(observers) < MaxObservers
    /\ Install(attach(World, l))
    /\ last' = [Call("attachObserver") EXCEPT !.listener = l]
    /\ detached' = [detached EXCEPT ![l] = None]
    /\ UNCHANGED <<now, nextId, opCount, steps, editTask, editDialogOpen,
                   written>>

DetachObserver ==
  \E l \in PlainObservers :
    /\ Install(detach(World, l))
    /\ last' = [Call("detachObserver") EXCEPT !.listener = l]
    /\ detached' = IF l \in Range(observers)
                   THEN [detached EXCEPT ![l] = Some(Count(observers, l))]
                   ELSE detached
    /\ UNCHANGED <<now, nextId, opCount, steps, editTask, editDialogOpen,
                   written>>

\* opCount counts the calls that reach the store: all but a changeTaskState
\* to a state without handler.
Counted(limit, reaches) ==
  /\ steps < limit
  /\ steps' = steps + 1
  /\ opCount' = opCount + (IF reaches THEN 1 ELSE 0)

CreateTask(inputs, limit) ==
  \E in \in inputs :
    LET r == createTask(World, in[1], in[2], in[3])
    IN /\ nextId <= MaxIds
       /\ Counted(limit, TRUE)
       /\ Install(r.w)
       /\ nextId' = nextId + 1
       /\ last' = Outcome([Call("createTask") EXCEPT
                             !.ret = r.ret, !.title = in[1],
                             !.description = in[2], !.priority = in[3]], r.w)
       /\ UNCHANGED <<now, detached, editTask, editDialogOpen, written>>

UpdateTask(passable, limit) ==
  \E p \in passable :
    LET a == Passed(World, p)
        w == updateTask(a.w, a.task)
    IN /\ Counted(limit, TRUE)
       /\ Install(w)
       /\ last' = Outcome([Call("updateTask") EXCEPT !.task = Some(a.task)], w)
       /\ UNCHANGED <<now, nextId, detached, editTask, editDialogOpen,
                      written>>

DeleteTask(limit) ==
  \E taskId \in IssuedIds \cup {UnknownId} :
    LET w == deleteTask(World, taskId)
    IN /\ Counted(limit, TRUE)
       /\ Install(w)
       /\ last' = Outcome([Call("deleteTask") EXCEPT !.taskId = Some(taskId)], w)
       /\ UNCHANGED <<now, nextId, detached, editTask, editDialogOpen,
                      written>>

ChangeTaskState(passable, limit) ==
  \E p \in passable, newState \in TaskState \cup {UnknownState} :
    LET a == Passed(World, p)
        w == changeTaskState(a.w, a.task, newState)
    IN /\ Counted(limit, newState \in TaskState)
       /\ Install(w)
       /\ last' = Outcome([Call("changeTaskState") EXCEPT
                             !.task = Some(a.task), !.newState = newState], w)
       /\ UNCHANGED <<now, nextId, detached, editTask, editDialogOpen,
                      written>>

\* A new process makes its first getInstance call: nothing of the old process
\* is left but the stores.
GetInstance(passable) ==
  \E storageAdapter \in passable :
    LET fresh == [World EXCEPT !.heap = <<>>, !.tasks = <<>>, !.observers = <<>>,
                               !.instance = FALSE,
                               !.adapter = LocalStorageAdapter,
                               !.received = [l \in Observers |-> None],
                               !.seen = [l \in Observers |-> None],
                               !.seenBlob = [l \in Observers |-> None],
                               !.setCount = 0]
        w == getInstance(fresh, storageAdapter)
    IN /\ Put(w)
       /\ raised' = 0
       /\ opCount' = 0
       /\ last' = [Call("getInstance") EXCEPT !.adapter = storageAdapter,
                                              !.threw = w.threw,
                                              !.sets = w.setCount]
       /\ detached' = [l \in Observers |-> None]
       /\ editTask' = None
       /\ editDialogOpen' = FALSE
       /\ UNCHANGED <<now, nextId, steps, written>>

\* A later getInstance call of the same process.
GetInstanceAgain(passable) ==
  \E storageAdapter \in passable :
    LET w == getInstance(World, storageAdapter)
    IN /\ Put(w)
       /\ last' = Outcome([Call("getInstanceAgain") EXCEPT !.adapter = storageAdapter], w)
       /\ UNCHANGED <<now, nextId, opCount, steps, raised, detached,
                      editTask, editDialogOpen, written>>

\* Somebody else writes localStorage under the service's key: clears it, or
\* leaves the empty string or a text that is not JSON.
ExternalWrite ==
  \E value \in {None, Some(EmptyText), Some(Malformed)} :
    /\ storage[STORAGE_KEY] # value
    /\ storage' = [storage EXCEPT ![STORAGE_KEY] = value]
    /\ last' = Call("externalWrite")
    /\ pre' = Snapshot
    /\ UNCHANGED <<now, nextId, heap, tasks, observers, passedStore, instance,
                   adapter, port, received, calls, log, seen, seenBlob, opCount,
                   setCount, raised, steps, detached,
                   editTask, editDialogOpen, written>>

\* The priority strategies: what getPriorityLevel() and getColor() return.
HighPriorityStrategy ==
  [class |-> "HighPriorityStrategy", getPriorityLevel |-> 3, getColor |-> "#ff4d4d"]

MediumPriorityStrategy ==
  [class |-> "MediumPriorityStrategy", getPriorityLevel |-> 2, getColor |-> "#ffa64d"]

LowPriorityStrategy ==
  [class |-> "LowPriorityStrategy", getPriorityLevel |-> 1, getColor |-> "#4dff4d"]

\* A factory whose default case gives the lowest rank.
getStrategy_defaultsLow(priority) ==
  CASE priority = TaskPriority_HIGH -> HighPriorityStrategy
    [] priority = TaskPriority_MEDIUM -> MediumPriorityStrategy
    [] priority = TaskPriority_LOW -> LowPriorityStrategy
    [] OTHER -> LowPriorityStrategy

\* PriorityStrategyFactory.getStrategy: a switch with a default case.
getStrategy(priority) ==
  CASE priority = TaskPriority_HIGH -> HighPriorityStrategy
    [] priority = TaskPriority_MEDIUM -> MediumPriorityStrategy
    [] priority = TaskPriority_LOW -> LowPriorityStrategy
    [] OTHER -> MediumPriorityStrategy

\* Values a caller can pass that are not of the enumeration: the type is
\* checked at compile time only.
UnknownPriorities == {"URGENT", "high", ""}

\* A lookup in the priority table, as TaskList makes to color and to sort.
GetStrategy ==
  \E priority \in TaskPriority \cup UnknownPriorities :
    /\ Install(World)
    /\ last' = Outcome([Call("getStrategy") EXCEPT
                          !.priority = priority,
                          !.ret = Some(getStrategy(priority))], World)
    /\ UNCHANGED <<now, nextId, opCount, steps, detached,
                   editTask, editDialogOpen, written>>

\* The queries are made with the task objects of the process.
GetPossibleNextState ==
  \E p \in Held(DOMAIN heap) :
    LET a == Passed(World, p)
        r == getPossibleNextState(a.w, a.task)
    IN /\ Install(r.w)
       /\ last' = Outcome([Call("getPossibleNextState") EXCEPT
                             !.task = Some(a.task), !.ret = Some(r.ret)], r.w)
       /\ UNCHANGED <<now, nextId, opCount, steps, detached,
                      editTask, editDialogOpen, written>>

GetPossiblePreviousState ==
  \E p \in Held(DOMAIN heap) :
    LET a == Passed(World, p)
        r == getPossiblePreviousState(a.w, a.task)
    IN /\ Install(r.w)
       /\ last' = Outcome([Call("getPossiblePreviousState") EXCEPT
                             !.task = Some(a.task), !.ret = Some(r.ret)], r.w)
       /\ UNCHANGED <<now, nextId, opCount, steps, detached,
                      editTask, editDialogOpen, written>>

GetTasks ==
  /\ Install(World)
  /\ last' = Outcome([Call("getTasks") EXCEPT !.ret = Some(getTasks(World))], World)
  /\ UNCHANGED <<now, nextId, opCount, steps, detached,
                 editTask, editDialogOpen, written>>

\* attachObserver with a listener that detaches from inside its update, or
\* with one that only records.
AttachDetaching ==
  \E l \in DetachingObservers \cup {"o1", "o2"} :
    /\ Len(observers) < MaxListeners
    /\ l \notin Range(observers)
    /\ Install(attach(World, l))
    /\ last' = [Call("attachObserver") EXCEPT !.listener = l]
    /\ detached' = [detached EXCEPT ![l] = None]
    /\ UNCHANGED <<now, nextId, opCount, steps, editTask, editDialogOpen,
                   written>>

\* attachObserver with a listener that only records, registered or not: up
\* to MaxListeners registrations, the same listener several times among them.
AttachAgain ==
  \E l \in {"o1", "o2"} :
    /\ Len(observers) < MaxListeners
    /\ Install(attach(World, l))
    /\ last' = [Call("attachObserver") EXCEPT !.listener = l]
    /\ detached' = [detached EXCEPT ![l] = None]
    /\ UNCHANGED <<now, nextId, opCount, steps, editTask, editDialogOpen,
                   written>>

\* attachObserver with a listener that calls the service from inside its
\* update, or with one that only records.
AttachReentrant ==
  \E l \in ReentrantObservers \cup {"o1"} :
    /\ Len(observers) < MaxListeners
    /\ l \notin Range(observers)
    /\ Install(attach(World, l))
    /\ last' = [Call("attachObserver") EXCEPT !.listener = l]
    /\ detached' = [detached EXCEPT ![l] = None]
    /\ UNCHANGED <<now, nextId, opCount, steps, editTask, editDialogOpen,
                   written>>

\* TaskList's useEffect: it registers its listener and takes the tasks.
Mounted == TaskListObserver \in Range(observers)

\* A mount that registers the observer without the initial load.
Mount_withoutLoad ==
  /\ ~Mounted
  /\ Install(attach(World, TaskListObserver))
  /\ last' = [Call("attachObserver") EXCEPT !.listener = TaskListObserver]
  /\ detached' = [detached EXCEPT ![TaskListObserver] = None]
  /\ UNCHANGED <<now, nextId, opCount, steps, editTask, editDialogOpen,
                 written>>

Mount ==
  LET a == attach(World, TaskListObserver)
      w == [a EXCEPT !.received[TaskListObserver] = Some(getTasks(a))]
  IN /\ ~Mounted
     /\ Install(w)
     /\ last' = [Call("attachObserver") EXCEPT !.listener = TaskListObserver]
     /\ detached' = [detached EXCEPT ![TaskListObserver] = None]
     /\ UNCHANGED <<now, nextId, opCount, steps, editTask, editDialogOpen,
                    written>>

\* The cleanup of TaskList's effect, run when the component unmounts: the
\* observer is detached, and the component's tasks go with the component.
Unmount ==
  LET d == detach(World, TaskListObserver)
      w == [d EXCEPT !.received[TaskListObserver] = None]
  IN /\ Mounted
     /\ ~editDialogOpen
     /\ Install(w)
     /\ last' = [Call("detachObserver") EXCEPT !.listener = TaskListObserver]
     /\ detached' = [detached EXCEPT
                       ![TaskListObserver] = Some(Count(observers, TaskListObserver))]
     /\ UNCHANGED <<now, nextId, opCount, steps, editTask, editDialogOpen,
                    written>>

\* TaskList's tasks: the references it was given last.
Shown ==
  IF received[TaskListObserver] = None THEN <<>> ELSE received[TaskListObserver][1]

\* TaskForm.handleSubmit with what the user typed into the fields: it
\* creates the task if the title has more than white space (and then resets
\* the fields for the user to type again).
HandleSubmit ==
  \E title \in TypedTitles, description \in Descriptions,
     priority \in TaskPriority :
    /\ ~editDialogOpen
    /\ IF trim(title) # ""
       THEN LET r == createTask(World, title, description, priority)
            IN /\ nextId <= MaxIds
               /\ Counted(MaxCalls, TRUE)
               /\ Install(r.w)
               /\ nextId' = nextId + 1
               /\ last' = Outcome([Call("handleSubmit") EXCEPT
                                     !.ret = r.ret, !.title = title,
                                     !.description = description,
                                     !.priority = priority], r.w)
       ELSE /\ Install(World)
            /\ last' = [Call("handleSubmit") EXCEPT !.title = title]
            /\ UNCHANGED <<nextId, opCount, steps>>
    /\ UNCHANGED <<now, detached, editTask, editDialogOpen, written>>

\* TaskList.handleEdit: the dialog opens on a task of the list.
HandleEdit ==
  \E i \in DOMAIN Shown :
    /\ ~editDialogOpen
    /\ editTask' = Some([ref |-> Some(Shown[i]), obj |-> heap[Shown[i]]])
    /\ editDialogOpen' = TRUE
    /\ UNCHANGED <<now, nextId, heap, tasks, observers, storage, passedStore,
                   instance, adapter, port, received, calls, log, seen, seenBlob,
                   last, pre, opCount, setCount, raised, steps, detached,
                   written>>

\* A field of the dialog changes: setEditTask({ ...editTask, field: value }).
SetEditTaskField(field, values) ==
  \E value \in values :
    /\ editDialogOpen
    /\ editTask # None
    /\ LET cur == IF editTask[1].ref # None THEN heap[editTask[1].ref[1]]
                  ELSE editTask[1].obj
       IN editTask' = Some([ref |-> None, obj |-> [cur EXCEPT ![field] = value]])
    /\ UNCHANGED <<now, nextId, heap, tasks, observers, storage, passedStore,
                   instance, adapter, port, received, calls, log, seen, seenBlob,
                   last, pre, opCount, setCount, raised, steps, detached,
                   editDialogOpen, written>>

EditTitle == SetEditTaskField("title", TypedTitles)

EditDescription == SetEditTaskField("description", Descriptions)

EditPriority == SetEditTaskField("priority", TaskPriority)

\* Cancel, or a click outside the dialog: it closes and editTask stays.
CloseDialog ==
  /\ editDialogOpen
  /\ editDialogOpen' = FALSE
  /\ UNCHANGED <<now, nextId, heap, tasks, observers, storage, passedStore,
                 instance, adapter, port, received, calls, log, seen, seenBlob,
                 last, pre, opCount, setCount, raised, steps, detached,
                 editTask, written>>

\* TaskList.handleEditSave: the task of the dialog goes to updateTask.
HandleEditSave ==
  /\ editDialogOpen
  /\ editTask # None
  /\ LET a == Passed(World, editTask[1])
         w == updateTask(a.w, a.task)
     IN /\ Counted(MaxCalls, TRUE)
        /\ Install(w)
        /\ editDialogOpen' = (IF w.threw THEN editDialogOpen ELSE FALSE)
        /\ editTask' = IF w.threw THEN editTask ELSE None
        /\ last' = Outcome([Call("handleEditSave") EXCEPT !.task = Some(a.task)], w)
  /\ UNCHANGED <<now, nextId, detached, written>>

\* TaskList.handleDelete, from the delete button of a task of the list.
HandleDelete ==
  \E i \in DOMAIN Shown :
    LET taskId == heap[Shown[i]].id
        w == deleteTask(World, taskId)
    IN /\ ~editDialogOpen
       /\ Counted(MaxCalls, TRUE)
       /\ Install(w)
       /\ last' = Outcome([Call("handleDelete") EXCEPT !.taskId = Some(taskId)], w)
       /\ UNCHANGED <<now, nextId, detached, editTask, editDialogOpen,
                      written>>

\* TaskList.handleStateChange, from the select of a task of the list, which
\* offers every state.
HandleStateChange ==
  \E i \in DOMAIN Shown, newState \in TaskState :
    LET w == changeTaskState(World, Shown[i], newState)
    IN /\ ~editDialogOpen
       /\ Counted(MaxCalls, TRUE)
       /\ Install(w)
       /\ last' = Outcome([Call("handleStateChange") EXCEPT
                             !.task = Some(Shown[i]), !.newState = newState], w)
       /\ UNCHANGED <<now, nextId, detached, editTask, editDialogOpen,
                      written>>

\* A client moves a stored task to the state a query reports for it, if it
\* reports one: changeTaskState(task, getPossibleNextState(task)).
MoveTo(op) ==
  \E p \in StoredTask :
    LET task == p.ref[1]
        q == IF op = "moveToNext" THEN getPossibleNextState(World, task)
             ELSE getPossiblePreviousState(World, task)
        w == changeTaskState(q.w, task, q.ret)
    IN /\ q.ret # Null
       /\ Counted(MaxMoves, TRUE)
       /\ Install(w)
       /\ last' = Outcome([Call(op) EXCEPT !.task = Some(task),
                                            !.newState = q.ret], w)
       /\ UNCHANGED <<now, nextId, detached, editTask, editDialogOpen,
                      written>>

MoveToNext == MoveTo("moveToNext")

MoveToPrevious == MoveTo("moveToPrevious")

\* The texts a caller of the adapter stores.
AdapterValues == {EmptyText, Text("v"), Text("w")}

\* A call on a LocalStorageAdapter of its own, not the service's.
OwnAdapter == [World EXCEPT !.adapter = LocalStorageAdapter]

PutAdapter(w) ==
  /\ Put([w EXCEPT !.adapter = adapter, !.setCount = setCount])
  /\ UNCHANGED <<now, nextId, opCount, raised, steps, detached,
                 editTask, editDialogOpen>>

AdapterGetItem ==
  \E key \in Keys :
    LET r == getItem(OwnAdapter, key)
    IN /\ PutAdapter(r.w)
       /\ last' = [Call("getItem") EXCEPT !.key = key, !.ret = Some(r.ret)]
       /\ UNCHANGED written

AdapterSetItem ==
  \E key \in Keys, value \in AdapterValues :
    /\ PutAdapter(setItem(OwnAdapter, key, value))
    /\ last' = [Call("setItem") EXCEPT !.key = key, !.value = Some(value)]
    /\ written' = [written EXCEPT ![key] = Some(value)]

AdapterRemoveItem ==
  \E key \in Keys :
    /\ PutAdapter(removeItem(OwnAdapter, key))
    /\ last' = [Call("removeItem") EXCEPT !.key = key]
    /\ written' = [written EXCEPT ![key] = None]

\* The service and its storage, without listeners: every task a caller can pass.
Next ==
  \/ Tick
  \/ CreateTask(NewTaskInputs, MaxOps)
  \/ UpdateTask(AnyTask, MaxOps)
  \/ DeleteTask(MaxOps)
  \/ ChangeTaskState(HeldTask, MaxOps)
  \/ GetInstance({None})

Spec == Init /\ [][Next]_vars

\* The service with its listeners: attach and detach between the calls.
NextObservers ==
  \/ AttachObserver
  \/ DetachObserver
  \/ CreateTask({<<"a", "", TaskPriority_HIGH>>}, MaxCalls)
  \/ UpdateTask(PlainTask, MaxCalls)
  \/ DeleteTask(MaxCalls)
  \/ ChangeTaskState(PlainTask, MaxCalls)
  \/ GetInstance({None})

SpecObservers == Init /\ [][NextObservers]_vars

\* The queries, asked between the calls that change the tasks and the
\* listener list.
NextQueries ==
  \/ AttachObserver
  \/ CreateTask({<<"a", "", TaskPriority_HIGH>>}, MaxCalls)
  \/ ChangeTaskState(PlainTask, MaxCalls)
  \/ DeleteTask(MaxCalls)
  \/ GetPossibleNextState
  \/ GetPossiblePreviousState
  \/ GetTasks
  \/ GetStrategy

SpecQueries == Init /\ [][NextQueries]_vars

\* The argument of getInstance: no adapter, or the adapter of the caller.
AdapterArgs == {None, Some(PassedAdapter)}

\* The life of the service: processes start and construct it over what the
\* stores hold, which others may have written.
NextLifecycle ==
  \/ CreateTask({<<"a", "", TaskPriority_HIGH>>}, MaxCalls)
  \/ DeleteTask(MaxCalls)
  \/ AttachObserver
  \/ GetInstance(AdapterArgs)
  \/ GetInstanceAgain(AdapterArgs)
  \/ ExternalWrite

SpecLifecycle == Init /\ [][NextLifecycle]_vars

\* Clients that follow the states the queries report, and clients that set
\* a state directly.
NextMoves ==
  \/ CreateTask({<<"a", "", TaskPriority_HIGH>>}, MaxMoves)
  \/ MoveToNext
  \/ MoveToPrevious
  \/ ChangeTaskState(StoredTask, MaxMoves)
  \/ GetInstance({None})

SpecMoves == Init /\ [][NextMoves]_vars

\* The service with listeners that detach during a notification.
NextDetaching ==
  \/ AttachDetaching
  \/ CreateTask({<<"a", "", TaskPriority_HIGH>>}, MaxCalls)
  \/ DeleteTask(MaxCalls)

SpecDetaching == Init /\ [][NextDetaching]_vars

\* The service with listeners registered several times.
NextRegistrations ==
  \/ AttachAgain
  \/ DetachObserver
  \/ CreateTask({<<"a", "", TaskPriority_HIGH>>}, MaxCalls)

SpecRegistrations == Init /\ [][NextRegistrations]_vars

\* The service with listeners that call it back during a notification.
NextReentrant ==
  \/ AttachReentrant
  \/ CreateTask({<<"a", "", TaskPriority_HIGH>>}, MaxOps)
  \/ DeleteTask(MaxOps)
  \/ ChangeTaskState(StoredTask, MaxOps)

SpecReentrant == Init /\ [][NextReentrant]_vars

\* The adapter by itself, over localStorage.
NextAdapter ==
  \/ AdapterGetItem
  \/ AdapterSetItem
  \/ AdapterRemoveItem

SpecAdapter == Init /\ [][NextAdapter]_vars

\* The application: App takes the instance, TaskList mounts, and the user
\* works with the form, the list and the edit dialog.
NextUI ==
  \/ GetInstance({None})
  \/ Mount
  \/ HandleSubmit
  \/ HandleEdit
  \/ EditTitle
  \/ EditDescription
  \/ EditPriority
  \/ CloseDialog
  \/ HandleEditSave
  \/ HandleDelete
  \/ HandleStateChange

SpecUI == Init /\ [][NextUI]_vars

\* The form and a TaskList that is mounted and unmounted between the calls.
NextMounting ==
  \/ GetInstance({None})
  \/ Mount
  \/ Unmount
  \/ HandleSubmit
  \/ HandleDelete
  \/ HandleStateChange

SpecMounting == Init /\ [][NextMounting]_vars

----------------------------------------------------------------------------
(* What the claims speak of *)

\* The collection held by the store, and the one the latest call found.
Stored == Deref(heap, tasks)

StoredBefore == Deref(pre.heap, pre.tasks)

Ids(records) == [i \in DOMAIN records |-> records[i].id]

\* The latest call was a create, update, delete or state change that reached
\* the store (a state change to a state of the enumeration).
Mutation ==
  \/ last.op \in {"createTask", "updateTask", "deleteTask"}
  \/ last.op = "changeTaskState" /\ last.newState \in TaskState

\* The task object the latest updateTask or changeTaskState was given.
PassedTask == heap[last.task[1]]

\* No registration the latest call found belongs to a listener that raises.
NoListenerRaises == \A l \in Range(pre.observers) : ~ObserverThrows(l)

----------------------------------------------------------------------------
(* C1 *)

\* C1, as stated: in every create, update, delete or state change, each
\* listener registered at the time of the call has update called exactly once,
\* with the resulting collection, and setItem is called exactly once; so n
\* such calls on a fresh service make n setItem calls.
C1_OncePerListener ==
  /\ Mutation =>
       /\ \A l \in Range(pre.observers) :
            calls[l] = 1 /\ received[l] = Some(tasks)
       /\ last.sets = 1
  /\ setCount = opCount

\* C1, amended: when no listener raises, each registration gets one update
\* call (a listener attached k times gets k), every registered listener was
\* last given the resulting collection, nobody else is called, and setItem is
\* called exactly once; the setItem calls of a service instance number its
\* mutating calls less those that raised.
C1_OncePerRegistration ==
  /\ (Mutation /\ NoListenerRaises) =>
       /\ ~last.threw
       /\ \A l \in Observers : calls[l] = Count(pre.observers, l)
       /\ \A l \in Range(pre.observers) : received[l] = Some(tasks)
       /\ last.sets = 1
  /\ setCount = opCount - raised

\* A mutating call notified two registrations, one of them a second
\* registration of the same listener, and persisted.
C1_Witness ==
  /\ Mutation
  /\ NoListenerRaises
  /\ Len(pre.observers) = 2
  /\ \E l \in Observers : calls[l] = 2
  /\ setCount = 2

----------------------------------------------------------------------------
(* C2 *)

\* The blob under the storage key is the serialization of the held collection.
Persisted == storage[STORAGE_KEY] = Some(stringify(heap, tasks))

\* C2: after a create, update, delete or state change that returned normally,
\* the blob under the storage key is the serialization of the collection the
\* store holds.
C2_BlobIsCollection == (Mutation /\ ~last.threw) => Persisted

\* A delete returned normally after an earlier call had raised and left the
\* storage behind the store; it changed the blob.
C2_Witness ==
  /\ last.op = "deleteTask"
  /\ ~last.threw
  /\ pre.raised = 1
  /\ pre.storage[STORAGE_KEY] # Some(stringify(pre.heap, pre.tasks))
  /\ Len(tasks) < Len(pre.tasks)
  /\ Persisted

----------------------------------------------------------------------------
(* C3 *)

\* C3: a service constructed on the storage of one whose mutating calls all
\* completed holds the same tasks in the same order, every field equal, the
\* dates equal in value.
C3_RoundTrip ==
  (last.op = "getInstance" /\ pre.raised = 0) => Stored = StoredBefore

\* A new service loaded two tasks, one of them updated after its creation.
C3_Witness ==
  /\ last.op = "getInstance"
  /\ pre.raised = 0
  /\ Len(tasks) = 2
  /\ \E i \in DOMAIN Stored : Stored[i].updatedAt > Stored[i].createdAt

----------------------------------------------------------------------------
(* C4 *)

\* C4: every task held by the store has updatedAt >= createdAt.
C4_UpdatedNotBeforeCreated ==
  \A i \in DOMAIN Stored : Stored[i].updatedAt >= Stored[i].createdAt

----------------------------------------------------------------------------
(* C5 *)

\* C5: no two tasks of the collection have the same id, and no call changes
\* the id of a stored task: no object's id is written, an update or a state
\* change leaves the ids where they are, a delete only takes the given id
\* out, and a create leaves the ids before the new one as they were.
C5_IdsUniqueAndFixed ==
  /\ \A i, j \in DOMAIN Stored : Stored[i].id = Stored[j].id => i = j
  /\ last.op \in {"createTask", "updateTask", "deleteTask", "changeTaskState"} =>
       \A r \in DOMAIN pre.heap : heap[r].id = pre.heap[r].id
  /\ last.op \in {"updateTask", "changeTaskState"} =>
       Ids(Stored) = Ids(StoredBefore)
  /\ last.op = "deleteTask" =>
       LET other(x) == x # last.taskId[1]
       IN Ids(Stored) = SelectSeq(Ids(StoredBefore), other)
  /\ last.op = "createTask" =>
       SubSeq(Ids(Stored), 1, Len(StoredBefore)) = Ids(StoredBefore)

\* An update was given the content of one stored task under the id of the
\* other, with two tasks stored.
C5_Witness ==
  /\ last.op = "updateTask"
  /\ Len(tasks) = 2
  /\ \E i, j \in DOMAIN Stored :
       /\ i # j
       /\ PassedTask.id = StoredBefore[i].id
       /\ [PassedTask EXCEPT !.id = StoredBefore[j].id] = StoredBefore[j]

----------------------------------------------------------------------------
(* C6 *)

\* C6: an update, a state change or a delete leaves the createdAt of every
\* task that remains in the collection as it was.
C6_CreatedAtSetOnce ==
  last.op \in {"updateTask", "changeTaskState", "deleteTask"} =>
    \A i \in DOMAIN Stored, j \in DOMAIN StoredBefore :
      Stored[i].id = StoredBefore[j].id =>
        Stored[i].createdAt = StoredBefore[j].createdAt

----------------------------------------------------------------------------
(* C7 *)

\* C7: the task createTask returns has state NEW, createdAt equal to
\* updatedAt, and the title, description and priority passed in.
C7_CreatedTask ==
  (last.op = "createTask" /\ last.ret # None) =>
    LET t == heap[last.ret[1]]
    IN /\ t.state = TaskState_NEW
       /\ t.createdAt = t.updatedAt
       /\ t.title = last.title
       /\ t.description = last.description
       /\ t.priority = last.priority

\* createTask returned a task made after the clock had advanced, with a
\* title and a description that differ.
C7_Witness ==
  /\ last.op = "createTask"
  /\ last.ret # None
  /\ last.at > 0
  /\ last.title = "b"
  /\ last.description = "d"
  /\ heap[last.ret[1]].title = "b"

----------------------------------------------------------------------------
(* C8 *)

\* C8: after createTask the collection is the previous one, the same objects
\* in the same order with their fields unchanged, followed by the returned
\* task: one longer.
C8_Appends ==
  last.op = "createTask" =>
    /\ Len(tasks) = Len(pre.tasks) + 1
    /\ SubSeq(tasks, 1, Len(pre.tasks)) = pre.tasks
    /\ \A r \in Range(pre.tasks) : heap[r] = pre.heap[r]
    /\ last.ret # None => last.ret = Some(tasks[Len(tasks)])

\* createTask added a second task behind a first one.
C8_Witness ==
  /\ last.op = "createTask"
  /\ Len(pre.tasks) = 1
  /\ Len(tasks) = 2
  /\ last.ret = Some(tasks[2])
  /\ tasks[1] = pre.tasks[1]

----------------------------------------------------------------------------
(* C9 *)

\* C9: updateTask puts the given task, its updatedAt set to the time of the
\* call, in the place of the stored task with its id; and no update or state
\* change lowers the updatedAt of a stored task.
C9_UpdateStamps ==
  /\ last.op = "updateTask" =>
       \A i \in DOMAIN StoredBefore :
         StoredBefore[i].id = PassedTask.id =>
           Stored[i] = [PassedTask EXCEPT !.updatedAt = last.at]
  /\ last.op \in {"updateTask", "changeTaskState"} =>
       /\ Len(tasks) = Len(pre.tasks)
       /\ \A i \in DOMAIN StoredBefore :
            Stored[i].updatedAt >= StoredBefore[i].updatedAt

\* updateTask was given a copy of a stored task with an updatedAt before the
\* stored one, and the stored one was not lowered.
C9_Witness ==
  /\ last.op = "updateTask"
  /\ \E i \in DOMAIN StoredBefore :
       /\ StoredBefore[i].id = PassedTask.id
       /\ PassedTask.updatedAt < StoredBefore[i].updatedAt
       /\ Stored[i].updatedAt = last.at
       /\ Stored[i].updatedAt > StoredBefore[i].updatedAt

----------------------------------------------------------------------------
(* C10 *)

\* The latest call was an updateTask with an id that no stored task had.
UpdateOfUnknownId ==
  /\ last.op = "updateTask"
  /\ \A i \in DOMAIN StoredBefore : StoredBefore[i].id # PassedTask.id

\* The collection holds the objects it held, in their order, unchanged.
SameContent ==
  /\ tasks = pre.tasks
  /\ \A r \in Range(pre.tasks) : heap[r] = pre.heap[r]

\* C10, as stated: updateTask with an id no stored task has leaves the
\* content of the collection unchanged and does not raise, and notifies every
\* listener once and persists once.
C10_UnknownIdAsStated ==
  UpdateOfUnknownId =>
    /\ SameContent
    /\ ~last.threw
    /\ \A l \in Range(pre.observers) : calls[l] = 1
    /\ last.sets = 1

\* C10, amended: updateTask with an id no stored task has leaves the content
\* of the collection unchanged; when no listener raises it does not raise,
\* calls update once for each registration and persists once.
C10_UnknownId ==
  UpdateOfUnknownId =>
    /\ SameContent
    /\ NoListenerRaises =>
         /\ ~last.threw
         /\ \A l \in Observers : calls[l] = Count(pre.observers, l)
         /\ last.sets = 1

\* An updateTask with an unknown id found a task stored and a listener
\* registered, and returned.
C10_Witness ==
  /\ UpdateOfUnknownId
  /\ Len(pre.tasks) = 1
  /\ pre.observers = <<"o1">>
  /\ calls["o1"] = 1
  /\ received["o1"] = Some(tasks)
  /\ last.sets = 1

----------------------------------------------------------------------------
(* C11 *)

\* The latest call was a deleteTask with the id of a stored task.
DeleteOfStoredId ==
  /\ last.op = "deleteTask"
  /\ \E i \in DOMAIN StoredBefore : StoredBefore[i].id = last.taskId[1]

\* C11: deleteTask with the id of a stored task leaves no task with that id,
\* makes the collection one shorter, and keeps all other tasks, the same
\* objects in the same order with their fields unchanged.
C11_DeleteRemovesOne ==
  DeleteOfStoredId =>
    LET other(r) == pre.heap[r].id # last.taskId[1]
    IN /\ \A i \in DOMAIN Stored : Stored[i].id # last.taskId[1]
       /\ Len(tasks) = Len(pre.tasks) - 1
       /\ tasks = SelectSeq(pre.tasks, other)
       /\ \A r \in Range(tasks) : heap[r] = pre.heap[r]

\* Two tasks were stored and the first was deleted: the second remains.
C11_Witness ==
  /\ DeleteOfStoredId
  /\ Len(pre.tasks) = 2
  /\ last.taskId[1] = StoredBefore[1].id
  /\ Stored = <<StoredBefore[2]>>

----------------------------------------------------------------------------
(* C12 *)

\* The latest call was a deleteTask with an id that no stored task had.
DeleteOfUnknownId ==
  /\ last.op = "deleteTask"
  /\ \A i \in DOMAIN StoredBefore : StoredBefore[i].id # last.taskId[1]

\* C12, as stated: deleteTask with an id no stored task has does not raise,
\* leaves the content of the collection unchanged, notifies every listener
\* once and persists once.
C12_UnknownIdAsStated ==
  DeleteOfUnknownId =>
    /\ ~last.threw
    /\ SameContent
    /\ \A l \in Range(pre.observers) : calls[l] = 1
    /\ last.sets = 1

\* C12, amended: deleteTask with an id no stored task has leaves the content
\* of the collection unchanged; when no listener raises it does not raise,
\* calls update once for each registration, with the collection, and persists
\* once.
C12_UnknownId ==
  DeleteOfUnknownId =>
    /\ SameContent
    /\ NoListenerRaises =>
         /\ ~last.threw
         /\ \A l \in Observers : calls[l] = Count(pre.observers, l)
         /\ \A l \in Range(pre.observers) : received[l] = Some(tasks)
         /\ last.sets = 1
         /\ Persisted

\* A deleteTask with an unknown id found a task stored and two listeners
\* registered, notified both and persisted.
C12_Witness ==
  /\ DeleteOfUnknownId
  /\ Len(pre.tasks) = 1
  /\ pre.observers = <<"o1", "o2">>
  /\ calls["o1"] = 1
  /\ calls["o2"] = 1
  /\ last.sets = 1

----------------------------------------------------------------------------
(* C13 *)

\* The latest call was a changeTaskState to a state of the enumeration.
StateChange == last.op = "changeTaskState" /\ last.newState \in TaskState

\* The state the passed task had when the latest call was made; a task
\* written out for the call has the state it was written with.
StateBefore ==
  IF last.task[1] \in DOMAIN pre.heap THEN pre.heap[last.task[1]].state
  ELSE Literal.state

\* C13: changeTaskState(task, S) with S of the enumeration leaves the passed
\* task with state S, and the stored record with the task's id, if there is
\* one, with state S; whatever the state of the task was.
C13_SetsAnyState ==
  StateChange =>
    /\ PassedTask.state = last.newState
    /\ \A i \in DOMAIN Stored :
         Stored[i].id = PassedTask.id => Stored[i].state = last.newState

\* A stored task that was COMPLETED was set to POSTPONED, which the table
\* gives neither as next nor as previous state of COMPLETED.
C13_Witness ==
  /\ StateChange
  /\ StateBefore = TaskState_COMPLETED
  /\ last.newState = TaskState_POSTPONED
  /\ \E i \in DOMAIN Stored :
       /\ Stored[i].id = PassedTask.id
       /\ StoredBefore[i].state = TaskState_COMPLETED
       /\ Stored[i].state = TaskState_POSTPONED

----------------------------------------------------------------------------
(* C14 *)

\* The latest call was a changeTaskState of a task whose id no stored task
\* had.
StateChangeOfUnknownId ==
  /\ last.op = "changeTaskState"
  /\ \A i \in DOMAIN StoredBefore : StoredBefore[i].id # PassedTask.id

\* C14, as stated: changeTaskState of a task whose id is not in the store
\* does not raise and leaves the content of the collection unchanged.
C14_UnknownIdAsStated ==
  StateChangeOfUnknownId => (~last.threw /\ SameContent)

\* C14, amended: changeTaskState of a task whose id is not in the store
\* leaves the content of the collection unchanged, and does not raise when no
\* listener raises.
C14_UnknownId ==
  StateChangeOfUnknownId =>
    /\ SameContent
    /\ NoListenerRaises => ~last.threw

\* A task whose id is not in the store was set to COMPLETED while another
\* task was stored and a listener registered: the passed object changed, the
\* stored one did not.
C14_Witness ==
  /\ StateChangeOfUnknownId
  /\ last.newState = TaskState_COMPLETED
  /\ Len(pre.tasks) = 1
  /\ pre.observers = <<"o1">>
  /\ ~last.threw
  /\ PassedTask.state = TaskState_COMPLETED
  /\ Stored[1].state = TaskState_NEW

----------------------------------------------------------------------------
(* C15 *)

\* The latest call was a changeTaskState to a value outside the enumeration.
StateChangeWithoutHandler ==
  last.op = "changeTaskState" /\ last.newState \notin TaskState

\* The passed task as the caller made the call with it.
PassedTaskBefore ==
  IF last.task[1] \in DOMAIN pre.heap THEN pre.heap[last.task[1]] ELSE Literal

\* C15: changeTaskState with a target state that has no handler returns
\* without raising and changes nothing: not the passed task or any other
\* object, not the collection, not the listener list, not the storage; no
\* listener is called and setItem is not called.
C15_NoHandlerNoOp ==
  StateChangeWithoutHandler =>
    /\ ~last.threw
    /\ PassedTask = PassedTaskBefore
    /\ \A r \in DOMAIN pre.heap : heap[r] = pre.heap[r]
    /\ tasks = pre.tasks
    /\ observers = pre.observers
    /\ \A l \in Observers : calls[l] = 0 /\ received[l] = pre.received[l]
    /\ last.sets = 0
    /\ storage = pre.storage

\* A stored task was passed with a target outside the enumeration while a
\* listener that raises was registered: the call returned, the task is as it
\* was.
C15_Witness ==
  /\ StateChangeWithoutHandler
  /\ last.task[1] \in Range(pre.tasks)
  /\ pre.observers = <<"bad">>
  /\ ~last.threw
  /\ PassedTask.state = TaskState_NEW
  /\ storage[STORAGE_KEY] = None

----------------------------------------------------------------------------
(* C16 *)

\* The table of the claim: state :> <<next, previous>>.
C16_Table ==
  (TaskState_NEW :> <<TaskState_IN_PROGRESS, Null>>)
  @@ (TaskState_IN_PROGRESS :> <<TaskState_COMPLETED, TaskState_NEW>>)
  @@ (TaskState_COMPLETED :> <<Null, TaskState_IN_PROGRESS>>)
  @@ (TaskState_POSTPONED :> <<TaskState_IN_PROGRESS, TaskState_NEW>>)

\* C16: getPossibleNextState and getPossiblePreviousState return what the
\* table gives for the state of the passed task, whatever its other fields.
C16_MatchesTable ==
  /\ last.op = "getPossibleNextState" =>
       last.ret = Some(C16_Table[PassedTask.state][1])
  /\ last.op = "getPossiblePreviousState" =>
       last.ret = Some(C16_Table[PassedTask.state][2])

\* getPossiblePreviousState was asked for a POSTPONED task and returned NEW.
C16_Witness ==
  /\ last.op = "getPossiblePreviousState"
  /\ PassedTask.state = TaskState_POSTPONED
  /\ last.ret = Some(TaskState_NEW)

----------------------------------------------------------------------------
(* C17 *)

\* The latest call was one of the three queries.
Query ==
  last.op \in {"getPossibleNextState", "getPossiblePreviousState", "getTasks"}

\* C17: getPossibleNextState, getPossiblePreviousState and getTasks return
\* without raising and leave every task object (the passed one included), the
\* collection, the listener list and the storage as they were; no listener
\* is called and setItem is not called.
C17_QueriesArePure ==
  Query =>
    /\ ~last.threw
    /\ heap = pre.heap
    /\ tasks = pre.tasks
    /\ observers = pre.observers
    /\ storage = pre.storage
    /\ received = pre.received
    /\ \A l \in Observers : calls[l] = 0
    /\ last.sets = 0

\* getPossibleNextState was asked for a stored NEW task and answered
\* IN_PROGRESS, with a listener registered and the task persisted: the task
\* is still NEW.
C17_Witness ==
  /\ last.op = "getPossibleNextState"
  /\ last.task[1] \in Range(tasks)
  /\ last.ret = Some(TaskState_IN_PROGRESS)
  /\ observers = <<"o1">>
  /\ storage[STORAGE_KEY] # None
  /\ PassedTask.state = TaskState_NEW

----------------------------------------------------------------------------
(* C18 *)

\* The latest call was a detach of a listener that was not registered.
DetachOfUnregistered ==
  /\ last.op = "detachObserver"
  /\ last.listener \notin Range(pre.observers)

----------------------------------------------------------------------------
(* C19 *)

\* The registrations a notification reaches: all of them, or those up to and
\* including the first one of a listener that raises.
Reached(regs) ==
  IF \E i \in DOMAIN regs : ObserverThrows(regs[i])
  THEN SubSeq(regs, 1, CHOOSE i \in DOMAIN regs :
                         /\ ObserverThrows(regs[i])
                         /\ \A j \in 1..(i - 1) : ~ObserverThrows(regs[j]))
  ELSE regs

\* C19, as stated: attach adds a registration also for a listener that is
\* registered already, and each mutating call calls update of a listener as
\* many times as the listener is registered.
C19_NoDedupAsStated ==
  /\ last.op = "attachObserver" =>
       observers = Append(pre.observers, last.listener)
  /\ Mutation =>
       \A l \in Observers : calls[l] = Count(pre.observers, l)

\* C19, amended: attach adds a registration also for a listener that is
\* registered already, and each mutating call calls update of a listener once
\* for each of its registrations that the notification reaches: all of them
\* when no listener raises, else those up to the first listener that raises.
C19_NoDedup ==
  /\ last.op = "attachObserver" =>
       observers = Append(pre.observers, last.listener)
  /\ Mutation =>
       \A l \in Observers : calls[l] = Count(Reached(pre.observers), l)

\* A listener attached twice was called twice by an updateTask.
C19_Witness ==
  /\ last.op = "updateTask"
  /\ pre.observers = <<"o2", "o2">>
  /\ calls["o2"] = 2
  /\ received["o2"] = Some(tasks)

----------------------------------------------------------------------------
(* C20 *)

\* C20, as stated: in each mutating call setTasks calls every registered
\* listener, in registration order, and each is given the new collection and
\* gets the new collection from getTasks() inside its update.
C20_NotifiesAllAsStated ==
  Mutation =>
    /\ log = pre.observers
    /\ \A l \in Range(pre.observers) :
         received[l] = Some(tasks) /\ seen[l] = Some(tasks)

\* C20, amended: in each mutating call setTasks calls the registered
\* listeners in registration order, up to and including the first one that
\* raises (all of them when none raises); each listener that is called and
\* does not raise is given the new collection and gets the new collection
\* from getTasks() inside its update.
C20_NotifiesInOrder ==
  Mutation =>
    /\ log = Reached(pre.observers)
    /\ \A l \in Range(log) :
         ~ObserverThrows(l) => (received[l] = Some(tasks) /\ seen[l] = Some(tasks))

\* Two listeners were registered, o2 before o1; a createTask called o2, then
\* o1, each with the collection that holds the new task.
C20_Witness ==
  /\ last.op = "createTask"
  /\ pre.observers = <<"o2", "o1">>
  /\ log = <<"o2", "o1">>
  /\ Len(tasks) = Len(pre.tasks) + 1
  /\ seen["o1"] = Some(tasks)
  /\ seen["o2"] = Some(tasks)

----------------------------------------------------------------------------
(* C21 *)

\* C21: in each mutating call the collection is replaced first, then the
\* listeners are notified, then the collection is persisted: every listener
\* that was called found the new collection in the store and, in the storage,
\* the blob that was there before the call; the blob is written once, after
\* the last listener returned, and is not written when a listener raised.
C21_ReplaceNotifyPersist ==
  Mutation =>
    /\ \A l \in Range(log) :
         ~ObserverThrows(l) =>
           /\ seen[l] = Some(tasks)
           /\ seenBlob[l] = Some(pre.storage[STORAGE_KEY])
    /\ ~last.threw => (last.sets = 1 /\ Persisted)
    /\ last.threw => (last.sets = 0 /\ storage = pre.storage)

\* A second createTask was made with two listeners registered: both found
\* the two tasks in the store while the storage still held the blob of the
\* first createTask; afterwards the storage holds the two tasks.
C21_Witness ==
  /\ last.op = "createTask"
  /\ pre.observers = <<"o1", "o2">>
  /\ Len(tasks) = 2
  /\ pre.storage[STORAGE_KEY] = Some(stringify(pre.heap, pre.tasks))
  /\ seenBlob["o2"] = Some(pre.storage[STORAGE_KEY])
  /\ seen["o2"] = Some(tasks)
  /\ Persisted
  /\ storage # pre.storage

----------------------------------------------------------------------------
(* C22 *)

\* The latest call was a mutating call that found a listener registered that
\* raises.
ListenerRaised == Mutation /\ ~NoListenerRaises

\* The collection has the value the latest mutating call gives it.
NewValue ==
  /\ last.op = "createTask" =>
       /\ Len(tasks) = Len(pre.tasks) + 1
       /\ SubSeq(tasks, 1, Len(pre.tasks)) = pre.tasks
       /\ Stored[Len(tasks)].title = last.title
  /\ last.op = "deleteTask" =>
       LET other(r) == pre.heap[r].id # last.taskId[1]
       IN tasks = SelectSeq(pre.tasks, other)
  /\ last.op = "updateTask" =>
       \A i \in DOMAIN StoredBefore :
         Stored[i] = IF StoredBefore[i].id = PassedTask.id
                     THEN [PassedTask EXCEPT !.updatedAt = last.at]
                     ELSE StoredBefore[i]
  /\ last.op = "changeTaskState" =>
       \A i \in DOMAIN StoredBefore :
         Stored[i] = IF StoredBefore[i].id = PassedTask.id
                     THEN PassedTask
                     ELSE StoredBefore[i]

----------------------------------------------------------------------------
(* C23 *)

\* The latest call was a getInstance that found no instance: the first call
\* of a process, or a call after a construction that raised.
Construction ==
  \/ last.op = "getInstance"
  \/ last.op = "getInstanceAgain" /\ ~pre.instance

\* What the store of the service's adapter holds under the service's key.
Blob ==
  IF adapter = LocalStorageAdapter THEN storage[STORAGE_KEY]
  ELSE passedStore[STORAGE_KEY]

\* C23: a construction that returns has called getItem once, with the
\* service's key, and nothing else on the adapter; the store holds the
\* persisted tasks, or no task when the key holds nothing; no listener is
\* registered or called and no store is written.
C23_ConstructionLoads ==
  (Construction /\ ~last.threw) =>
    /\ instance
    /\ port = <<  <<"getItem", STORAGE_KEY>>  >>
    /\ IF Blob \in {None, Some(EmptyText)} THEN tasks = <<>>
       ELSE Some(stringify(heap, tasks)) = Blob
    /\ observers = <<>>
    /\ log = <<>>
    /\ \A l \in Observers : calls[l] = 0
    /\ last.sets = 0
    /\ storage = pre.storage
    /\ passedStore = pre.passedStore

\* A new process constructed the service with the adapter of the caller,
\* whose store held a task, while localStorage held a text that is not JSON.
C23_Witness ==
  /\ last.op = "getInstance"
  /\ ~last.threw
  /\ last.adapter = Some(PassedAdapter)
  /\ adapter = PassedAdapter
  /\ storage[STORAGE_KEY] = Some(Malformed)
  /\ Len(tasks) = 1
  /\ port = <<  <<"getItem", STORAGE_KEY>>  >>

----------------------------------------------------------------------------
(* C24 *)

\* The latest call was a construction over localStorage, which held a text
\* that is not JSON under the service's key.
ConstructionOverMalformed ==
  /\ Construction
  /\ last.adapter = None
  /\ pre.storage[STORAGE_KEY] = Some(Malformed)

\* C24: a construction that finds a text that is not JSON under the key
\* raises, leaves TaskService.instance unset and leaves the stores as they
\* were.
C24_MalformedRaises ==
  ConstructionOverMalformed =>
    /\ last.threw
    /\ ~instance
    /\ last.sets = 0
    /\ storage = pre.storage
    /\ passedStore = pre.passedStore

\* getInstance raised over a text that is not JSON; a second getInstance call
\* of the same process constructed again and raised again.
C24_Witness ==
  /\ last.op = "getInstanceAgain"
  /\ ConstructionOverMalformed
  /\ last.threw
  /\ ~instance
  /\ storage[STORAGE_KEY] = Some(Malformed)

----------------------------------------------------------------------------
(* C25 *)

\* The latest call was a getInstance that found the instance set.
LaterGetInstance == last.op = "getInstanceAgain" /\ pre.instance

\* C25: a getInstance call that finds the instance set returns it as it is:
\* no construction (no call on any adapter, the listeners and the tasks stay),
\* no reload from the storage, and the adapter passed is not taken.
C25_SameInstance ==
  LaterGetInstance =>
    /\ ~last.threw
    /\ instance
    /\ port = <<>>
    /\ adapter = pre.adapter
    /\ heap = pre.heap
    /\ tasks = pre.tasks
    /\ observers = pre.observers
    /\ received = pre.received
    /\ storage = pre.storage
    /\ passedStore = pre.passedStore

\* getInstance was called with the adapter of the caller on a service that
\* uses localStorage and has a task and a listener, after the stored text
\* had been replaced by one that is not JSON: the service is as it was.
C25_Witness ==
  /\ LaterGetInstance
  /\ last.adapter = Some(PassedAdapter)
  /\ adapter = LocalStorageAdapter
  /\ storage[STORAGE_KEY] = Some(Malformed)
  /\ Len(tasks) = 1
  /\ observers = <<"o1">>

----------------------------------------------------------------------------
(* C26 *)

\* C26 as stated: every task of the collection has a title that is not
\* empty after trimming, whatever the user did with the form, the list and
\* the edit dialog.
C26_TitlesNonEmpty ==
  \A i \in DOMAIN tasks : trim(heap[tasks[i]].title) # ""

----------------------------------------------------------------------------
(* C27 *)

\* The latest call was a priority lookup; what it returned.
Lookup == last.op = "getStrategy"

Rank == last.ret[1].getPriorityLevel

Color == last.ret[1].getColor

\* C27: the lookup never fails; it gives rank 3 and #ff4d4d for HIGH, rank 2
\* and #ffa64d for MEDIUM, rank 1 and #4dff4d for LOW, and for a value that
\* is not of the enumeration the rank and the color of MEDIUM.
C27_PriorityLookup ==
  Lookup =>
    /\ ~last.threw
    /\ last.ret # None
    /\ last.priority = "HIGH" => Rank = 3 /\ Color = "#ff4d4d"
    /\ last.priority = "MEDIUM" => Rank = 2 /\ Color = "#ffa64d"
    /\ last.priority = "LOW" => Rank = 1 /\ Color = "#4dff4d"
    /\ last.priority \notin {"HIGH", "MEDIUM", "LOW"} =>
         Rank = 2 /\ Color = "#ffa64d"

\* A lookup was made with a value that is not of the enumeration.
C27_Witness ==
  /\ Lookup
  /\ last.priority = "URGENT"
  /\ Len(tasks) > 0

----------------------------------------------------------------------------
(* C28 *)

----------------------------------------------------------------------------
(* C29 *)

\* The ids of the task objects that are POSTPONED.
PostponedIds(h) == {h[r].id : r \in {x \in DOMAIN h : h[x].state = TaskState_POSTPONED}}

\* The latest call moved a task to the state a query reported.
AdvertisedMove == last.op \in {"moveToNext", "moveToPrevious"}

\* The latest call was a changeTaskState with POSTPONED as target.
DirectPostpone ==
  last.op = "changeTaskState" /\ last.newState = TaskState_POSTPONED

\* C29: no query reports POSTPONED, so a move to the state a query reports
\* never makes a task POSTPONED: a task becomes POSTPONED only in a
\* changeTaskState called with POSTPONED, which makes the passed task
\* POSTPONED whatever its state was.
C29_PostponedOnlyDirectly ==
  /\ AdvertisedMove =>
       /\ last.newState \in TaskState \ {TaskState_POSTPONED}
       /\ PassedTask.state = last.newState
  /\ ~(PostponedIds(heap) \subseteq PostponedIds(pre.heap)) => DirectPostpone
  /\ DirectPostpone =>
       /\ PassedTask.state = TaskState_POSTPONED
       /\ PassedTask.id \in PostponedIds(Stored) \/ PassedTask.id \notin Range(Ids(Stored))

\* A task that had reached COMPLETED by the moves the queries report was
\* moved back to IN_PROGRESS, while the other task is POSTPONED since a
\* direct call.
C29_Witness ==
  /\ last.op = "moveToPrevious"
  /\ StateBefore = TaskState_COMPLETED
  /\ PassedTask.state = TaskState_IN_PROGRESS
  /\ PostponedIds(Stored) # {}

----------------------------------------------------------------------------
(* C30 *)

\* C30: the calls a service operation makes on its storage adapter are
\* getItem and setItem with the key "tasks" and no others: no other key is
\* read or written, removeItem is not called, and so a key that holds a
\* value still holds one after the operation.
C30_OnlyKeyTasks ==
  /\ \A i \in DOMAIN port :
       port[i] \in {<<"getItem", "tasks">>, <<"setItem", "tasks">>}
  /\ \A k \in Keys \ {"tasks"} : storage[k] = None /\ passedStore[k] = None
  /\ last.op # "externalWrite" =>
       \A k \in Keys :
         /\ pre.storage[k] # None => storage[k] # None
         /\ pre.passedStore[k] # None => passedStore[k] # None

\* The last task was deleted on a service that uses the adapter of its
\* caller: the one call on the adapter was setItem under "tasks", which left
\* the text of the empty collection there and localStorage as it was.
C30_Witness ==
  /\ last.op = "deleteTask"
  /\ adapter = PassedAdapter
  /\ Len(pre.tasks) = 1
  /\ tasks = <<>>
  /\ port = << <<"setItem", "tasks">> >>
  /\ passedStore["tasks"] # None
  /\ storage = pre.storage

----------------------------------------------------------------------------
(* C31 *)

\* The latest call was made on the adapter itself.
AdapterCall == last.op \in {"getItem", "setItem", "removeItem"}

\* C31: getItem(k) returns what the latest setItem(k, v) stored if no
\* removeItem(k) followed it, the empty string included, and null if k was
\* never set or was removed; setItem and removeItem change the value under
\* their key only and getItem changes none.
C31_KeyValueMap ==
  AdapterCall =>
    /\ last.op = "getItem" => last.ret = Some(written[last.key])
    /\ last.op = "getItem" => storage = pre.storage
    /\ last.op = "setItem" => storage[last.key] = last.value
    /\ last.op = "removeItem" => storage[last.key] = None
    /\ \A k \in Keys \ {last.key} : storage[k] = pre.storage[k]
    /\ passedStore = pre.passedStore

\* getItem returned the empty string that was set under "tasks", while the
\* other key holds another text.
C31_Witness ==
  /\ last.op = "getItem"
  /\ last.key = "tasks"
  /\ last.ret = Some(Some(EmptyText))
  /\ storage["theme"] = Some(Text("v"))

----------------------------------------------------------------------------
(* C32 *)

\* The latest call was an updateTask or a changeTaskState.
UpdateOrStateChange == last.op \in {"updateTask", "changeTaskState"}

\* C32: updateTask and changeTaskState leave the collection as long as it
\* was, with the ids in the same places, and every stored task whose id is
\* not that of the passed task the same object with all its fields as they
\* were.
C32_OthersUntouched ==
  UpdateOrStateChange =>
    /\ Len(tasks) = Len(pre.tasks)
    /\ Ids(Stored) = Ids(StoredBefore)
    /\ \A i \in DOMAIN pre.tasks :
         StoredBefore[i].id # PassedTask.id =>
           /\ tasks[i] = pre.tasks[i]
           /\ Stored[i] = StoredBefore[i]

\* The first of two stored tasks was replaced by a copy with another title:
\* it is still the first, and the second is as it was.
C32_Witness ==
  /\ last.op = "updateTask"
  /\ Len(pre.tasks) = 2
  /\ StoredBefore[1].id = PassedTask.id
  /\ Stored[1].title # StoredBefore[1].title
  /\ StoredBefore[2].id # PassedTask.id
  /\ Stored[2] = StoredBefore[2]

----------------------------------------------------------------------------
(* C33 *)

\* C33 as stated: changeTaskState to a state of the enumeration leaves the
\* title, description, priority and createdAt of the stored task with the id
\* of the passed task as they were in the store, also when the passed object
\* is an older copy of the task.
C33_KeepsStoredFields ==
  StateChange =>
    \A i \in DOMAIN pre.tasks :
      StoredBefore[i].id = PassedTask.id =>
        /\ Stored[i].title = StoredBefore[i].title
        /\ Stored[i].description = StoredBefore[i].description
        /\ Stored[i].priority = StoredBefore[i].priority
        /\ Stored[i].createdAt = StoredBefore[i].createdAt

----------------------------------------------------------------------------
(* C34 *)

\* A listener before the place i of the list the call found detaches the
\* listener at i from inside its update.
DetachedBeforeTurn(i) ==
  \E j \in 1..(i - 1) :
    ObserverDetaches(pre.observers[j]) = <<pre.observers[i]>>

\* C34 as stated: in a mutating call every listener of the list the call
\* found, unless a listener before it detaches it, is notified exactly once,
\* also when listeners detach themselves or others from inside update.
C34_EachOnceDespiteDetach ==
  Mutation =>
    \A i \in DOMAIN pre.observers :
      ~DetachedBeforeTurn(i) => calls[pre.observers[i]] = 1

----------------------------------------------------------------------------
(* C35 *)

\* During the latest call a listener called the service: more update calls
\* were made than one notification makes.
Reentered == Len(log) > Len(pre.observers)

----------------------------------------------------------------------------
(* C36 *)

\* The collections the listeners held when the latest call was made.
DeliveredBefore == {pre.received[l][1] : l \in {x \in Observers : pre.received[x] # None}}

\* C36 as stated: a create, update, delete or state change leaves every
\* collection delivered before it with its tasks in their places and every
\* field of them as it was, also when changeTaskState is given a task of such
\* a collection.
C36_DeliveredUnaltered ==
  Mutation =>
    \A c \in DeliveredBefore : Deref(heap, c) = Deref(pre.heap, c)

----------------------------------------------------------------------------
(* C37 *)

\* The latest call is a detach of a listener that was registered.
DetachOfRegistered ==
  last.op = "detachObserver" /\ last.listener \in Range(pre.observers)

----------------------------------------------------------------------------
(* C38 *)

\* The latest call went through the form or the list to a mutating operation
\* of the service, which returned.
HandledMutation ==
  /\ last.op \in {"handleSubmit", "handleDelete", "handleStateChange"}
  /\ ~last.threw
  /\ tasks # pre.tasks

\* C38: while the TaskList is mounted, its tasks are the service's
\* collection, from the mount and after every mutating operation; after the
\* unmount its observer is not registered.
C38_ShownIsCollection ==
  /\ Mounted => Shown = tasks
  /\ (last.op = "detachObserver" /\ last.listener = TaskListObserver) =>
        TaskListObserver \notin Range(observers)

\* A mutating operation on a mounted list that was mounted on a service
\* already holding tasks.
C38_Witness ==
  /\ Mounted
  /\ HandledMutation
  /\ pre.tasks # <<>>
  /\ tasks # <<>>
  /\ Shown = tasks

----------------------------------------------------------------------------
(* C39 *)

\* The states a task object goes through when a client moves it to the
\* state the query reports for it until the query reports none, or until
\* fuel moves are made.
RECURSIVE Walk(_, _, _, _)
Walk(w, task, op, fuel) ==
  LET q == IF op = "moveToNext" THEN getPossibleNextState(w, task)
           ELSE getPossiblePreviousState(w, task)
  IN IF q.ret = Null \/ fuel = 0 THEN <<w.heap[task].state>>
     ELSE <<w.heap[task].state>>
            \o Walk(changeTaskState(q.w, task, q.ret), task, op, fuel - 1)

\* A walk that ends within two moves in the given state, no state twice.
EndsIn(walk, state) ==
  /\ Len(walk) <= 3
  /\ walk[Len(walk)] = state
  /\ \A i, j \in DOMAIN walk : walk[i] = walk[j] => i = j

\* C39: from the state of every stored task, the moves to the advertised
\* next state end in COMPLETED within two moves and the moves to the
\* advertised previous state end in NEW within two moves, neither passing a
\* state twice; COMPLETED has no next state and NEW no previous one.
C39_WalksEnd ==
  /\ \A p \in StoredTask :
        /\ EndsIn(Walk(World, p.ref[1], "moveToNext", MaxWalk), TaskState_COMPLETED)
        /\ EndsIn(Walk(World, p.ref[1], "moveToPrevious", MaxWalk), TaskState_NEW)
  /\ getNextState(TaskState_COMPLETED) = Null
  /\ getPreviousState(TaskState_NEW) = Null

\* A client has moved a task twice to its previous state and it is NEW,
\* next to a postponed task, two moves from either end.
C39_Witness ==
  /\ last.op = "moveToPrevious"
  /\ ~last.threw
  /\ heap[last.task[1]].state = TaskState_NEW
  /\ \E p \in StoredTask :
        /\ Len(Walk(World, p.ref[1], "moveToNext", MaxWalk)) = 3
        /\ heap[p.ref[1]].state = TaskState_POSTPONED

====
